---- MODULE Spec2Model ----
(***************************************************************************)
(* Model of the Samsung TV wall remote: the device control client of       *)
(* backend/samsung_controller.py (token pairing, key sending, power on and *)
(* off, the command-line bulk fan-out of main) and the per-device executor *)
(* of backend/main.py (execute_command_for_tv).                            *)
(*                                                                         *)
(* A task is one thread running one of the controller's functions for one  *)
(* device.  Every action is one interaction of a task with something       *)
(* outside of it (a ping, a read or a write of tv_info.json, a websocket   *)
(* connect, receive or send, a UDP send) together with the local           *)
(* computation that follows it up to the next interaction.  The device     *)
(* and the network are the environment: the answer of every ping, connect, *)
(* receive and send is chosen nondeterministically.  json.load and         *)
(* json.dump of tv_info.json are each one step; update_tv_info, which      *)
(* loads, modifies and saves, is two.                                      *)
(***************************************************************************)
EXTENDS Integers, Sequences, FiniteSets, TLC

\* ------------------------------------------------------------- bounds
\* Most target addresses of one bulk call.
MaxTargets == 2
\* Most calls made one after the other by the caller of the API.
MaxCalls == 2
\* Most groups of digits in a hardware address given to send_wol_packet.
MaxMacGroups == 7

\* ---------------------------------------------------- program constants
\* for _ in range(10)
PollAttempts == 10
\* len(mac_bytes) != 6
MacLen == 6
\* mac_bytes * 16
MacRepeat == 16
\* time.sleep(3)
SleepSeconds == 3
\* sock.sendto(magic_packet, (broadcast_ip, 9))
WolPort == 9

\* Python's None, for the string-valued fields.
None == "<None>"
\* Python's None for a mac, which is otherwise a sequence of characters.
NoneMac == <<"<None>">>

\* `not v`: None and the empty string are false.
Falsy(v) == v = None \/ v = ""
FalsyMac(m) == m = NoneMac \/ m = <<>>

\* ------------------------------------------------------------ inputs
IPS == {"10.0.0.1", "10.0.0.2"}
\* "t1" is a token a directory may start with, "t2" the one a device issues.
Tokens == {"t1", "t2"}
IssuedTokens == {"t2"}
GoodMac == <<"a","a",":","b","b",":","0","1",":","0","2",":","0","3",":","F","f">>
DashMac == <<"0","0","-","1","1","-","2","2","-","3","3","-","4","4","-","5","5">>
ShortMac == <<"a","a",":","b","b">>
DefaultBroadcast == "10.10.111.255"
OtherBroadcast == "192.168.1.255"

\* A Device Record of tv_info.json; present = FALSE is an address that has no
\* record.  last_updated is "init" until update_tv_info stamps the record.
NoRecord ==
    [present |-> FALSE, name |-> <<>>, mac |-> NoneMac, broadcast_ip |-> None,
     token |-> None, last_updated |-> None]

Rec(name, mac, bc, token) ==
    [present |-> TRUE, name |-> name, mac |-> mac, broadcast_ip |-> bc,
     token |-> token, last_updated |-> "init"]

\* The records a directory starts with.
RecordChoices ==
    { NoRecord,
      Rec(<<"Lobby">>, GoodMac, None, None),
      Rec(<<"Lobby">>, GoodMac, OtherBroadcast, "t1"),
      Rec(<<"Lobby">>, <<>>, None, "t1"),
      Rec(<<"Lobby">>, NoneMac, None, None),
      Rec(<<"Lobby">>, ShortMac, None, "t1") }

Directories == [IPS -> RecordChoices]

\* The directories a run of main() starts with.
BulkDirectories ==
    {d \in Directories :
        /\ d["10.0.0.1"] \in {NoRecord, Rec(<<"Lobby">>, GoodMac, OtherBroadcast, "t1")}
        /\ d["10.0.0.2"] \in {Rec(<<"Lobby">>, GoodMac, None, None),
                               Rec(<<"Lobby">>, GoodMac, OtherBroadcast, "t1")}}

\* load_tv_keys(): the Command Registry (the default keys, abridged).
tv_keys ==
    [c \in {"power-on", "power-off", "volup", "blank"} |->
        CASE c = "power-on" -> "WOL"
          [] c = "power-off" -> "KEY_POWER"
          [] c = "volup" -> "KEY_VOLUP"
          [] OTHER -> ""]

\* tv_keys.get(name): the Command Registry's resolve.
resolve(name) == IF name \in DOMAIN tv_keys THEN tv_keys[name] ELSE None

\* The command names a caller may give.
Commands == {"power-on", "power-off", "volup", "blank", "discover", "bogus"}
\* The key codes a caller of send_key / send_command may give.
Keys == {"KEY_VOLUP"}

\* ----------------------------------------------- the first frame received
Connect == "ms.channel.connect"
Unauthorized == "ms.channel.unauthorized"
TimeOut == "ms.channel.timeOut"

\* A control frame: {"event": ..., "data": {"token": ...}, "message": ...}.
Frames ==
    {[event |-> Connect, token |-> t, message |-> None] : t \in IssuedTokens \cup {None}}
    \cup {[event |-> Unauthorized, token |-> None, message |-> "rejected by TV"]}
    \cup {[event |-> TimeOut, token |-> None, message |-> m] : m \in {None, "try again"}}

\* What create_connection, recv and send can raise.
NetError == <<"timed out">>

VARIABLES
    file,        \* tv_info.json: address -> Device Record
    task,        \* slot -> the thread running one function for one device
    mainpc,      \* where the caller (API) or main() (command line) is
    command,     \* args.command of main()
    targets,     \* the target list of main()
    collected,   \* the futures main() has taken the result of, in that order
    results,     \* main(): results
    summary,     \* main(): the printed summary
    ncalls,      \* calls started so far
    prev         \* summary of the call that returned last

vars == <<file, task, mainpc, command, targets, collected, results, summary, ncalls, prev>>

Slots == 1..MaxTargets

\* ------------------------------------------------------------ values
\* The dict the command processors return.
Dict(ip, name, success, message) ==
    [kind |-> "dict", ip |-> ip, name |-> name, success |-> success,
     message |-> message, token |-> None, command |-> None]

\* The (success, message) tuple send_command and send_wol_packet return.
Pair(success, message) ==
    [kind |-> "pair", ip |-> None, name |-> <<>>, success |-> success,
     message |-> message, token |-> None, command |-> None]

\* What get_token returns: a token or None.
TokenValue(tok) ==
    [kind |-> "token", ip |-> None, name |-> <<>>, success |-> FALSE,
     message |-> <<>>, token |-> tok, command |-> None]

NoValue ==
    [kind |-> "none", ip |-> None, name |-> <<>>, success |-> FALSE,
     message |-> <<>>, token |-> None, command |-> None]

\* final_result / error_result of execute_command_for_tv.
EctDict(ip, cmd, success, message) ==
    [kind |-> "result", ip |-> ip, name |-> <<>>, success |-> success,
     message |-> message, token |-> None, command |-> cmd]

EmptyDir == [ip \in IPS |-> NoRecord]

BlankTask ==
    [pc |-> "unused", stk |-> <<>>, entry |-> None, ip |-> None, key |-> None,
     command |-> None, force |-> FALSE, name |-> <<>>, mac |-> NoneMac,
     bcast |-> None, token |-> None, ws |-> {}, i |-> 0, upd |-> None,
     loaded |-> EmptyDir, msg |-> <<>>, rv |-> NoValue, exc |-> <<>>,
     log |-> <<>>]

Logged(t, ev) == [t EXCEPT !.log = Append(@, ev)]

\* The number of events of the kinds `kinds` in a log.
Count(log, kinds) == Cardinality({k \in 1..Len(log) : log[k][1] \in kinds})

\* ------------------------------------------------ the Device Directory
get_tv_info(f, ip) == IF ip \in DOMAIN f THEN f[ip] ELSE NoRecord

get_tv_name(f, ip) ==
    IF get_tv_info(f, ip).present
    THEN get_tv_info(f, ip).name
    ELSE <<"Unknown TV (", ip, ")">>

IpOrder == <<"10.0.0.1", "10.0.0.2">>
IsPresent(f, ip) == f[ip].present
get_all_tvs(f) == SelectSeq(IpOrder, LAMBDA ip : IsPresent(f, ip))

\* ------------------------------------------------------ Wake Signaler
HexDigits == <<"0","1","2","3","4","5","6","7","8","9","a","b","c","d","e","f">>
UpperHex == <<"0","1","2","3","4","5","6","7","8","9","A","B","C","D","E","F">>
IsHex(c) == \E k \in 1..16 : HexDigits[k] = c \/ UpperHex[k] = c
HexVal(c) == (CHOOSE k \in 1..16 : HexDigits[k] = c \/ UpperHex[k] = c) - 1

\* mac_address.replace(":", "").replace("-", "")
StripSeparators(mac) == SelectSeq(mac, LAMBDA c : c # ":" /\ c # "-")

\* bytes.fromhex raises ValueError unless the digits are hex and pair up.
FromHexOk(s) == Len(s) % 2 = 0 /\ \A k \in 1..Len(s) : IsHex(s[k])
FromHex(s) == [k \in 1..(Len(s) \div 2) |-> 16 * HexVal(s[2 * k - 1]) + HexVal(s[2 * k])]

\* MacOk without the length check: any even number of hex digits will do.
MacOkAnyLength(mac) ==
    FromHexOk(StripSeparators(mac))

\* bytes.fromhex(...) and len(mac_bytes) != 6
MacOk(mac) ==
    /\ FromHexOk(StripSeparators(mac))
    /\ Len(FromHex(StripSeparators(mac))) = MacLen

\* b"\xff" * 6 + mac_bytes * 16
MagicPacket(mac) ==
    LET b == FromHex(StripSeparators(mac))
    IN [k \in 1..(6 + Len(b) * MacRepeat) |->
            IF k <= 6 THEN 255 ELSE b[((k - 7) % Len(b)) + 1]]

\* sock.sendto(magic_packet, (broadcast_ip, 9)): the datagram.
Datagram(mac, broadcast_ip) ==
    [addr |-> broadcast_ip, port |-> WolPort, payload |-> MagicPacket(mac)]

\* send_wol_packet: (True, ...) when the packet was sent; `sent` is whether
\* the socket took the datagram (sendto raises otherwise).
send_wol_packet(mac, broadcast_ip, sent) ==
    IF ~MacOk(mac) THEN Pair(FALSE, <<"Error sending WOL packet: ", "Invalid MAC">>)
    ELSE IF ~sent THEN Pair(FALSE, <<"Error sending WOL packet: ">> \o NetError)
    ELSE Pair(TRUE, <<"WOL packet sent to ", broadcast_ip>>)

\* ------------------------------------------------- calls and returns
\* A function that has returned to the caller of the task: its frames are gone.
Finished(t, val) ==
    [BlankTask EXCEPT !.pc = "done", !.entry = t.entry, !.ip = t.ip,
                      !.key = t.key, !.command = t.command, !.force = t.force,
                      !.log = t.log, !.rv = val]

\* An exception that has left the task's function.
Failed(t, e) ==
    [BlankTask EXCEPT !.pc = "raised", !.entry = t.entry, !.ip = t.ip,
                      !.key = t.key, !.command = t.command, !.force = t.force,
                      !.log = t.log, !.exc = e]

\* finally: if ws: ws.close()
Closed(t, ch) ==
    IF ch \in t.ws
    THEN [t EXCEPT !.ws = @ \ {ch},
                   !.log = Append(@, <<IF ch = "pairing" THEN "close_pairing"
                                       ELSE "close_command", None>>)]
    ELSE t

\* handle_power_off_result taking every return of send_command for a success.
handle_power_off_result_optimistic(t, val) ==
    Dict(t.ip, t.name, TRUE, <<"Power-off command sent successfully.">>)

\* handle_power_off, after send_command(tv_ip, "KEY_POWER") returned.
handle_power_off_result(t, val) ==
    IF val.success
    THEN Dict(t.ip, t.name, TRUE, <<"Power-off command sent successfully.">>)
    ELSE Dict(t.ip, t.name, FALSE, <<"Failed to send power-off command: ">> \o val.message)

\* process_generic_command, after send_command returned.
process_generic_command_result(t, val) ==
    Dict(t.ip, t.name, val.success, val.message)

\* execute_command_for_tv: the final_result made from the function's result.
execute_command_result(t, val) ==
    EctDict(t.ip, t.command, val.success, val.message)

\* execute_command_for_tv: except Exception as e.
execute_command_error(t, e) ==
    EctDict(t.ip, t.command, FALSE, <<"Error: ">> \o e)

\* success, msg = send_command(...): what the Command Dispatcher returned to
\* the handler that called it.
Dispatched(t, val) ==
    Logged(t, <<IF val.success THEN "dispatch_ok" ELSE "dispatch_failed", val.message>>)

\* A return: the frame on top of the stack goes on with the value, up to its
\* next interaction.  "send_command:token" is send_command after get_token
\* returned (`if not token`); "get_token:persisted" and "send_command:cleared"
\* are the two callers of update_tv_info, which return through their finally.
RECURSIVE Return(_, _)
Return(t, val) ==
    IF t.stk = <<>> THEN Finished(t, val)
    ELSE LET k == Head(t.stk)
             u == [t EXCEPT !.stk = Tail(@)]
         IN CASE k = "send_command:token" ->
                    IF Falsy(val.token)
                    THEN Return(u, Pair(FALSE, <<"Authentication token not available">>))
                    ELSE [u EXCEPT !.pc = "sc_connect", !.token = val.token, !.upd = None]
              [] k = "get_token:persisted" ->
                    Return(Closed(u, "pairing"), TokenValue(u.upd))
              [] k = "send_command:cleared" ->
                    Return(Closed(u, "command"), Pair(FALSE, u.msg))
              [] k = "handle_power_off:sent" ->
                    Return(Dispatched(u, val), handle_power_off_result(u, val))
              [] k = "process_generic_command:sent" ->
                    Return(Dispatched(u, val), process_generic_command_result(u, val))
              [] k = "send_key:return" ->
                    Return(u, val)
              [] k = "execute_command_for_tv:result" ->
                    Return(u, execute_command_result(u, val))

\* An exception raised where no try encloses it in the raising function: it
\* reaches the try of execute_command_for_tv, or else leaves the task.
Raise(t, e) ==
    IF \E k \in 1..Len(t.stk) : t.stk[k] = "execute_command_for_tv:result"
    THEN Finished(t, execute_command_error(t, e))
    ELSE Failed(t, e)

\* send_command(tv_ip, command_key) begins with token = get_token(tv_ip).
CallSendCommand(t, key, ret) ==
    [t EXCEPT !.pc = "gt_read", !.key = key, !.force = FALSE,
              !.stk = <<"send_command:token">> \o ret \o @]

\* update_tv_info(ip, token=tok), returning to the frame `ret`.
CallUpdateTvInfo(t, tok, ret) ==
    [t EXCEPT !.pc = "uti_load", !.upd = tok, !.stk = <<ret>> \o @]

\* The task at the first interaction of `entry`.
NewTask(entry, ip) == [BlankTask EXCEPT !.entry = entry, !.ip = ip]

\* execute_command_for_tv: the choice of the function by the command name
\* (SAMSUNG_FUNCTIONS holds every function of samsung_controller).
execute_command_for_tv(ip, cmd) ==
    LET t == [NewTask("execute_command_for_tv", ip) EXCEPT !.command = cmd]
    IN CASE cmd = "power-on" ->
               [t EXCEPT !.pc = "hpo_check", !.stk = <<"execute_command_for_tv:result">>]
         [] cmd = "power-off" ->
               [t EXCEPT !.pc = "pgc_check", !.key = "KEY_POWER",
                         !.stk = <<"send_key:return", "execute_command_for_tv:result">>]
         [] cmd = "discover" ->
               Finished(t, execute_command_error(t,
                   <<"No suitable function found for command: ", cmd>>))
         [] OTHER ->
               [t EXCEPT !.pc = "pgc_check", !.key = cmd,
                         !.stk = <<"send_key:return", "execute_command_for_tv:result">>]

Entries ==
    {"handle_power_on", "handle_power_off", "process_generic_command", "send_key",
     "send_command", "get_token", "execute_command_for_tv"}

\* A call of function `entry` for `ip`; arg is its key code or command name.
StartTask(entry, ip, arg, force) ==
    CASE entry = "handle_power_on" -> [NewTask(entry, ip) EXCEPT !.pc = "hpo_check"]
      [] entry = "handle_power_off" -> [NewTask(entry, ip) EXCEPT !.pc = "hpf_check"]
      [] entry = "process_generic_command" ->
            [NewTask(entry, ip) EXCEPT !.pc = "pgc_check", !.key = arg]
      [] entry = "send_key" ->
            [NewTask(entry, ip) EXCEPT !.pc = "pgc_check", !.key = arg,
                                       !.stk = <<"send_key:return">>]
      [] entry = "send_command" -> CallSendCommand(NewTask(entry, ip), arg, <<>>)
      [] entry = "get_token" ->
            [NewTask(entry, ip) EXCEPT !.pc = "gt_read", !.force = force]
      [] entry = "execute_command_for_tv" -> execute_command_for_tv(ip, arg)

\* ------------------------------------------------------------ actions
Step(s, t) == task' = [task EXCEPT ![s] = t]

Quiet == UNCHANGED <<mainpc, command, targets, collected, results, summary, ncalls, prev>>

\* is_tv_on(tv_ip): one ping, answered by the environment.
Probed(t, on) == Logged(t, <<"probe", IF on THEN "on" ELSE "off">>)

\* HpoCheck without its fast path: a reachable device is woken all the same.
HpoCheckNoFastPath(s) ==
    /\ task[s].pc = "hpo_check"
    /\ \E on \in BOOLEAN :
        LET t == Probed([task[s] EXCEPT !.name = get_tv_name(file, task[s].ip)], on)
        IN Step(s, [t EXCEPT !.pc = "hpo_info"])
    /\ UNCHANGED file /\ Quiet

\* handle_power_on, lines 198-205: the name and the first ping.
HpoCheck(s) ==
    /\ task[s].pc = "hpo_check"
    /\ \E on \in BOOLEAN :
        LET t == Probed([task[s] EXCEPT !.name = get_tv_name(file, task[s].ip)], on)
        IN IF on
           THEN Step(s, Return(t, Dict(t.ip, t.name, TRUE, <<"TV is already on.">>)))
           ELSE Step(s, [t EXCEPT !.pc = "hpo_info"])
    /\ UNCHANGED file /\ Quiet

\* HpoInfo without `if not mac`: the wake signal is tried with any mac.
HpoInfoNoMacCheck(s) ==
    /\ task[s].pc = "hpo_info"
    /\ LET t == task[s]
           tv_info == get_tv_info(file, t.ip)
       IN IF ~tv_info.present
          THEN Step(s, Raise(t, <<"'NoneType' object has no attribute 'get'">>))
          ELSE Step(s, [t EXCEPT !.pc = "hpo_wol", !.mac = tv_info.mac,
                                 !.bcast = IF tv_info.broadcast_ip = None
                                           THEN DefaultBroadcast
                                           ELSE tv_info.broadcast_ip])
    /\ UNCHANGED file /\ Quiet

\* handle_power_on, lines 207-218: the Device Record and its mac.
HpoInfo(s) ==
    /\ task[s].pc = "hpo_info"
    /\ LET t == task[s]
           tv_info == get_tv_info(file, t.ip)
       IN IF ~tv_info.present
          THEN Step(s, Raise(t, <<"'NoneType' object has no attribute 'get'">>))
          ELSE IF FalsyMac(tv_info.mac)
          THEN Step(s, Return(t, Dict(t.ip, t.name, FALSE, <<"No MAC address configured.">>)))
          ELSE Step(s, [t EXCEPT !.pc = "hpo_wol", !.mac = tv_info.mac,
                                 !.bcast = IF tv_info.broadcast_ip = None
                                           THEN DefaultBroadcast
                                           ELSE tv_info.broadcast_ip])
    /\ UNCHANGED file /\ Quiet

\* HpoWol returning as soon as the wake signal is out, with no verification.
HpoWolNoVerify(s) ==
    /\ task[s].pc = "hpo_wol"
    /\ \E sent \in BOOLEAN :
        LET t == task[s]
            r == send_wol_packet(t.mac, t.bcast, sent)
        IN IF r.success
           THEN Step(s, Return(Logged(t, <<"wol", t.bcast>>),
                               Dict(t.ip, t.name, TRUE, r.message)))
           ELSE Step(s, Return(t, Dict(t.ip, t.name, FALSE, r.message)))
    /\ UNCHANGED file /\ Quiet

\* handle_power_on, lines 219-221: the wake signal.
HpoWol(s) ==
    /\ task[s].pc = "hpo_wol"
    /\ \E sent \in BOOLEAN :
        LET t == task[s]
            r == send_wol_packet(t.mac, t.bcast, sent)
        IN IF r.success
           THEN Step(s, [Logged(t, <<"wol", t.bcast>>) EXCEPT !.pc = "hpo_poll", !.i = 0])
           ELSE Step(s, Return(t, Dict(t.ip, t.name, FALSE, r.message)))
    /\ UNCHANGED file /\ Quiet

\* HpoPoll reporting a failure when the last ping fails too.
HpoPollFailsOnTimeout(s) ==
    /\ task[s].pc = "hpo_poll"
    /\ task[s].i < PollAttempts
    /\ \E on \in BOOLEAN :
        LET t == Probed(Logged(task[s], <<"sleep", SleepSeconds>>), on)
        IN IF on
           THEN Step(s, Return(t, Dict(t.ip, t.name, TRUE, <<"TV successfully powered on.">>)))
           ELSE IF t.i + 1 < PollAttempts
           THEN Step(s, [t EXCEPT !.i = @ + 1])
           ELSE Step(s, Return(t, Dict(t.ip, t.name, FALSE,
                    <<"WOL sent, but verification timed out. TV may be booting slowly.">>)))
    /\ UNCHANGED file /\ Quiet

\* HpoPoll sending the wake signal again before each round of the loop.
HpoPollResendsWol(s) ==
    /\ task[s].pc = "hpo_poll"
    /\ task[s].i < PollAttempts
    /\ \E on \in BOOLEAN :
        LET t == Probed(Logged(Logged(task[s], <<"wol", task[s].bcast>>),
                               <<"sleep", SleepSeconds>>), on)
        IN IF on
           THEN Step(s, Return(t, Dict(t.ip, t.name, TRUE, <<"TV successfully powered on.">>)))
           ELSE IF t.i + 1 < PollAttempts
           THEN Step(s, [t EXCEPT !.i = @ + 1])
           ELSE Step(s, Return(t, Dict(t.ip, t.name, TRUE,
                    <<"WOL sent, but verification timed out. TV may be booting slowly.">>)))
    /\ UNCHANGED file /\ Quiet

\* HpoPoll with a loop that never counts its rounds: it polls until the
\* device answers.
HpoPollUntilOn(s) ==
    /\ task[s].pc = "hpo_poll"
    /\ \E on \in BOOLEAN :
        LET t == Probed(Logged(task[s], <<"sleep", SleepSeconds>>), on)
        IN IF on
           THEN Step(s, Return(t, Dict(t.ip, t.name, TRUE, <<"TV successfully powered on.">>)))
           ELSE Step(s, t)
    /\ UNCHANGED file /\ Quiet

\* handle_power_on, lines 223-238: one round of the verification loop, and
\* the return after the last one.
HpoPoll(s) ==
    /\ task[s].pc = "hpo_poll"
    /\ task[s].i < PollAttempts
    /\ \E on \in BOOLEAN :
        LET t == Probed(Logged(task[s], <<"sleep", SleepSeconds>>), on)
        IN IF on
           THEN Step(s, Return(t, Dict(t.ip, t.name, TRUE, <<"TV successfully powered on.">>)))
           ELSE IF t.i + 1 < PollAttempts
           THEN Step(s, [t EXCEPT !.i = @ + 1])
           ELSE Step(s, Return(t, Dict(t.ip, t.name, TRUE,
                    <<"WOL sent, but verification timed out. TV may be booting slowly.">>)))
    /\ UNCHANGED file /\ Quiet

\* HpfCheck without the ping deciding: the power key is sent in any case.
HpfCheckAlwaysSend(s) ==
    /\ task[s].pc = "hpf_check"
    /\ \E on \in BOOLEAN :
        LET t == Probed([task[s] EXCEPT !.name = get_tv_name(file, task[s].ip)], on)
        IN Step(s, CallSendCommand(t, "KEY_POWER", <<"handle_power_off:sent">>))
    /\ UNCHANGED file /\ Quiet

\* handle_power_off, lines 246-258: the name, the ping, and the call of
\* send_command.
HpfCheck(s) ==
    /\ task[s].pc = "hpf_check"
    /\ \E on \in BOOLEAN :
        LET t == Probed([task[s] EXCEPT !.name = get_tv_name(file, task[s].ip)], on)
        IN IF ~on
           THEN Step(s, Return(t, Dict(t.ip, t.name, TRUE,
                    <<"TV is already off (unresponsive to ping).">>)))
           ELSE Step(s, CallSendCommand(t, "KEY_POWER", <<"handle_power_off:sent">>))
    /\ UNCHANGED file /\ Quiet

\* PgcCheck resolving the token and sending before any ping is made.
PgcCheckSkipsProbe(s) ==
    /\ task[s].pc = "pgc_check"
    /\ LET t == [task[s] EXCEPT !.name = get_tv_name(file, task[s].ip)]
       IN Step(s, CallSendCommand(t, t.key, <<"process_generic_command:sent">>))
    /\ UNCHANGED file /\ Quiet

\* PgcCheck without the ping deciding: the key is sent to any device.
PgcCheckAlwaysSend(s) ==
    /\ task[s].pc = "pgc_check"
    /\ \E on \in BOOLEAN :
        LET t == Probed([task[s] EXCEPT !.name = get_tv_name(file, task[s].ip)], on)
        IN Step(s, CallSendCommand(t, t.key, <<"process_generic_command:sent">>))
    /\ UNCHANGED file /\ Quiet

\* process_generic_command, lines 280-283.
PgcCheck(s) ==
    /\ task[s].pc = "pgc_check"
    /\ \E on \in BOOLEAN :
        LET t == Probed([task[s] EXCEPT !.name = get_tv_name(file, task[s].ip)], on)
        IN IF ~on
           THEN Step(s, Return(t, Dict(t.ip, t.name, FALSE, <<"TV is off.">>)))
           ELSE Step(s, CallSendCommand(t, t.key, <<"process_generic_command:sent">>))
    /\ UNCHANGED file /\ Quiet

\* What a recv can give: a frame, or an exception (a timeout, a closed
\* socket, a frame that is no JSON object).
RecvError == [event |-> "<error>", token |-> None, message |-> None]
Received == Frames \cup {RecvError}

\* get_token, lines 133-134: the token get_token returns without pairing, or
\* None when it has to pair.
cached_token(tv_info, force) ==
    IF ~force /\ ~Falsy(tv_info.token) THEN tv_info.token ELSE None

\* GtRead never answering from the record: every call pairs.
GtReadAlwaysPairs(s) ==
    /\ task[s].pc = "gt_read"
    /\ LET tv_info == get_tv_info(file, task[s].ip)
           t == Logged(task[s], <<"get_token", tv_info.token>>)
       IN IF ~tv_info.present
          THEN Step(s, Return(t, TokenValue(None)))
          ELSE Step(s, [t EXCEPT !.pc = "gt_connect"])
    /\ UNCHANGED file /\ Quiet

\* get_token, lines 130-134: the Device Record and its cached token.
GtRead(s) ==
    /\ task[s].pc = "gt_read"
    /\ LET tv_info == get_tv_info(file, task[s].ip)
           t == Logged(task[s], <<"get_token", tv_info.token>>)
       IN IF ~tv_info.present
          THEN Step(s, Return(t, TokenValue(None)))
          ELSE IF cached_token(tv_info, t.force) # None
          THEN Step(s, Return(t, TokenValue(cached_token(tv_info, t.force))))
          ELSE Step(s, [t EXCEPT !.pc = "gt_connect"])
    /\ UNCHANGED file /\ Quiet

\* get_token, lines 136-142: the pairing channel, opened with no token.
GtConnect(s) ==
    /\ task[s].pc = "gt_connect"
    /\ \E ok \in BOOLEAN :
        LET t == task[s]
        IN IF ok
           THEN Step(s, [Logged(t, <<"open_pairing", None>>) EXCEPT
                            !.pc = "gt_recv", !.ws = @ \cup {"pairing"}])
           ELSE Step(s, Return(Logged(t, <<"connect_failed", "pairing">>), TokenValue(None)))
    /\ UNCHANGED file /\ Quiet

\* GtRecv returning the token it was given without update_tv_info.
GtRecvNoPersist(s) ==
    /\ task[s].pc = "gt_recv"
    /\ \E r \in Received :
        LET t == Logged(task[s], <<"recv_pairing", IF r = RecvError THEN r.event ELSE r.token>>)
        IN IF r # RecvError /\ ~Falsy(r.token)
           THEN Step(s, Return(Closed(t, "pairing"), TokenValue(r.token)))
           ELSE Step(s, Return(Closed(t, "pairing"), TokenValue(None)))
    /\ UNCHANGED file /\ Quiet

\* GtRecv without `if response.get("data", {}).get("token")`: whatever the
\* frame holds is written to the record and returned.
GtRecvPersistsAnything(s) ==
    /\ task[s].pc = "gt_recv"
    /\ \E r \in Received :
        LET t == Logged(task[s], <<"recv_pairing", IF r = RecvError THEN r.event ELSE r.token>>)
        IN IF r # RecvError
           THEN Step(s, CallUpdateTvInfo(t, r.token, "get_token:persisted"))
           ELSE Step(s, Return(Closed(t, "pairing"), TokenValue(None)))
    /\ UNCHANGED file /\ Quiet

\* get_token, lines 143-153: the pairing response.
GtRecv(s) ==
    /\ task[s].pc = "gt_recv"
    /\ \E r \in Received :
        LET t == Logged(task[s], <<"recv_pairing", IF r = RecvError THEN r.event ELSE r.token>>)
        IN IF r # RecvError /\ ~Falsy(r.token)
           THEN Step(s, CallUpdateTvInfo(t, r.token, "get_token:persisted"))
           ELSE Step(s, Return(Closed(t, "pairing"), TokenValue(None)))
    /\ UNCHANGED file /\ Quiet

\* update_tv_info, lines 85-90: load_tv_info and the change of the copy.
UtiLoad(s) ==
    /\ task[s].pc = "uti_load"
    /\ LET t == task[s]
       IN IF ~get_tv_info(file, t.ip).present
          THEN Step(s, Return(t, NoValue))
          ELSE Step(s, [t EXCEPT !.pc = "uti_save",
                                 !.loaded = [file EXCEPT ![t.ip].token = t.upd,
                                                         ![t.ip].last_updated = "updated"]])
    /\ UNCHANGED file /\ Quiet

\* update_tv_info, line 91: save_tv_info writes the whole copy.
UtiSave(s) ==
    /\ task[s].pc = "uti_save"
    /\ file' = task[s].loaded
    /\ LET t == Logged(task[s], <<"persist", task[s].loaded[task[s].ip].token>>)
       IN Step(s, Return([t EXCEPT !.loaded = EmptyDir], NoValue))
    /\ Quiet

\* ScConnect trying again when create_connection fails.
ScConnectRetries(s) ==
    /\ task[s].pc = "sc_connect"
    /\ \E ok \in BOOLEAN :
        LET t == task[s]
        IN IF ok
           THEN Step(s, [Logged(t, <<"open_command", t.token>>) EXCEPT
                            !.pc = "sc_recv", !.ws = @ \cup {"command"}])
           ELSE Step(s, Logged(t, <<"connect_failed", "command">>))
    /\ UNCHANGED file /\ Quiet

\* send_command, lines 162-167: the command channel, opened with the token.
ScConnect(s) ==
    /\ task[s].pc = "sc_connect"
    /\ \E ok \in BOOLEAN :
        LET t == task[s]
        IN IF ok
           THEN Step(s, [Logged(t, <<"open_command", t.token>>) EXCEPT
                            !.pc = "sc_recv", !.ws = @ \cup {"command"}])
           ELSE Step(s, Return(Logged(t, <<"connect_failed", "command">>),
                               Pair(FALSE, NetError)))
    /\ UNCHANGED file /\ Quiet

\* ScRecv without the test of the event: the key press follows any frame.
ScRecvIgnoresEvent(s) ==
    /\ task[s].pc = "sc_recv"
    /\ \E r \in Received :
        LET t == Logged(task[s], <<"recv_command", r.event>>)
        IN IF r = RecvError
           THEN Step(s, Return(Closed(t, "command"), Pair(FALSE, NetError)))
           ELSE Step(s, [t EXCEPT !.pc = "sc_send"])
    /\ UNCHANGED file /\ Quiet

\* ScRecv returning on a refused channel without the finally: the
\* connection stays open.
ScRecvLeaksOnRefusal(s) ==
    /\ task[s].pc = "sc_recv"
    /\ \E r \in Received :
        LET t == Logged(task[s], <<"recv_command", r.event>>)
            msg == IF r.message = None THEN <<"Connection issue">> ELSE <<r.message>>
        IN IF r = RecvError
           THEN Step(s, Return(Closed(t, "command"), Pair(FALSE, NetError)))
           ELSE IF r.event # Connect
           THEN IF r.event = Unauthorized
                THEN Step(s, CallUpdateTvInfo([t EXCEPT !.msg = msg], None,
                                              "send_command:cleared"))
                ELSE Step(s, Return(t, Pair(FALSE, msg)))
           ELSE Step(s, [t EXCEPT !.pc = "sc_send"])
    /\ UNCHANGED file /\ Quiet

\* send_command, lines 168-172: the first frame.
ScRecv(s) ==
    /\ task[s].pc = "sc_recv"
    /\ \E r \in Received :
        LET t == Logged(task[s], <<"recv_command", r.event>>)
            msg == IF r.message = None THEN <<"Connection issue">> ELSE <<r.message>>
        IN IF r = RecvError
           THEN Step(s, Return(Closed(t, "command"), Pair(FALSE, NetError)))
           ELSE IF r.event # Connect
           THEN IF r.event = Unauthorized
                THEN Step(s, CallUpdateTvInfo([t EXCEPT !.msg = msg], None,
                                              "send_command:cleared"))
                ELSE Step(s, Return(Closed(t, "command"), Pair(FALSE, msg)))
           ELSE Step(s, [t EXCEPT !.pc = "sc_send"])
    /\ UNCHANGED file /\ Quiet

\* The payload of send_command, lines 174-182.
ClickPayload(key) ==
    [method |-> "ms.remote.control",
     params |-> [Cmd |-> "Click", DataOfCmd |-> key, Option |-> "false",
                 TypeOfRemote |-> "SendRemoteKey"]]

\* send_command, lines 183-189: the key press.
ScSend(s) ==
    /\ task[s].pc = "sc_send"
    /\ \E ok \in BOOLEAN :
        LET t == task[s]
        IN IF ok
           THEN Step(s, Return(Closed(Logged(t, <<"send", ClickPayload(t.key).params.DataOfCmd>>),
                                      "command"),
                               Pair(TRUE, <<"Sent ", t.key>>)))
           ELSE Step(s, Return(Closed(Logged(t, <<"send_failed", t.key>>), "command"),
                               Pair(FALSE, NetError)))
    /\ UNCHANGED file /\ Quiet

TaskNext(s) ==
    \/ HpoCheck(s) \/ HpoInfo(s) \/ HpoWol(s) \/ HpoPoll(s)
    \/ HpfCheck(s) \/ PgcCheck(s)
    \/ GtRead(s) \/ GtConnect(s) \/ GtRecv(s)
    \/ UtiLoad(s) \/ UtiSave(s)
    \/ ScConnect(s) \/ ScRecv(s) \/ ScSend(s)

Ended(t) == t.pc \in {"done", "raised"}

\* ------------------------------------------------- the caller of the API
NoPrev == [valid |-> FALSE, ip |-> None, wol |-> FALSE, steps |-> 0, auth |-> FALSE]

\* The call was a send_command (made directly or by a handler) that ended in
\* an authentication error: the token was rejected by the device, or the
\* record had no token and the pairing gave none.
AuthError(t, f) ==
    /\ t.pc = "done" /\ get_tv_info(f, t.ip).present
    /\ t.entry \in {"send_command", "send_key", "process_generic_command", "handle_power_off"}
    /\ \/ \E k \in 1..Len(t.log) : t.log[k] = <<"recv_command", Unauthorized>>
       \/ /\ \E k \in 1..Len(t.log) : t.log[k][1] = "get_token" /\ Falsy(t.log[k][2])
          /\ \A k \in 1..Len(t.log) : t.log[k][1] = "recv_pairing" => t.log[k][2] \notin Tokens

\* What is kept of a call once it has returned: of a handle_power_on its
\* steps, of a call that ended in an authentication error that it did.
PrevOf(t) ==
    IF t.entry = "handle_power_on" /\ t.pc = "done"
    THEN [valid |-> TRUE, ip |-> t.ip, wol |-> Count(t.log, {"wol"}) > 0,
          steps |-> Count(t.log, {"probe", "sleep"}), auth |-> FALSE]
    ELSE IF AuthError(t, file)
    THEN [NoPrev EXCEPT !.ip = t.ip, !.auth = TRUE]
    ELSE NoPrev

Args(entry) ==
    IF entry = "execute_command_for_tv" THEN Commands
    ELSE IF entry \in {"process_generic_command", "send_key", "send_command"} THEN Keys
    ELSE {None}

\* A call of one function of the controller, or of the service's executor.
ApiCall ==
    /\ mainpc = "idle"
    /\ ncalls < MaxCalls
    /\ \E entry \in Entries, ip \in IPS :
        \E arg \in Args(entry), force \in IF entry = "get_token" THEN BOOLEAN ELSE {FALSE} :
            task' = [task EXCEPT ![1] = StartTask(entry, ip, arg, force)]
    /\ mainpc' = "api"
    /\ ncalls' = ncalls + 1
    /\ UNCHANGED <<file, command, targets, collected, results, summary, prev>>

\* The caller has the result (or the exception) of its call.
ApiReturn ==
    /\ mainpc = "api"
    /\ Ended(task[1])
    /\ prev' = PrevOf(task[1])
    /\ task' = [task EXCEPT ![1] = BlankTask]
    /\ mainpc' = "idle"
    /\ UNCHANGED <<file, command, targets, collected, results, summary, ncalls>>

\* ------------------------------------------------ main(), command line
\* --target: "all", or the addresses given.  The threads of the pool run in
\* any order, so the lists are taken with their addresses in one order.
IpRank(ip) == CHOOSE k \in 1..Len(IpOrder) : IpOrder[k] = ip
TargetLists ==
    {q \in UNION {[1..n -> IPS] : n \in 1..MaxTargets} :
        \A j, k \in 1..Len(q) : j < k => IpRank(q[j]) <= IpRank(q[k])}
TargetArgs ==
    {[all |-> TRUE, ips |-> <<>>]} \cup {[all |-> FALSE, ips |-> q] : q \in TargetLists}

NoSummary == [printed |-> FALSE, error |-> None, successful |-> 0, failed |-> 0, total |-> 0]

\* main, lines 319-382: the arguments, the choice of target_func and the
\* submission of one future per target.
Main ==
    /\ mainpc = "idle"
    /\ \E cmd \in Commands, arg \in TargetArgs :
        LET tgt == IF arg.all THEN get_all_tvs(file) ELSE arg.ips
            func == CASE cmd = "power-on" -> "handle_power_on"
                      [] cmd = "power-off" -> "handle_power_off"
                      [] OTHER -> "process_generic_command"
        IN /\ Len(tgt) <= MaxTargets
           /\ command' = cmd
           /\ IF cmd \notin DOMAIN tv_keys
              THEN /\ summary' = [NoSummary EXCEPT !.error = "argument --command: invalid choice"]
                   /\ mainpc' = "exited"
                   /\ UNCHANGED <<task, targets>>
              ELSE IF cmd \notin {"power-on", "power-off"} /\ Falsy(resolve(cmd))
              THEN /\ summary' = [NoSummary EXCEPT !.error = "Error: Unknown command"]
                   /\ mainpc' = "exited"
                   /\ targets' = tgt
                   /\ UNCHANGED task
              ELSE /\ targets' = tgt
                   /\ task' = [s \in Slots |->
                                 IF s <= Len(tgt)
                                 THEN StartTask(func, tgt[s], resolve(cmd), FALSE)
                                 ELSE BlankTask]
                   /\ mainpc' = "collect"
                   /\ UNCHANGED summary
    /\ UNCHANGED <<file, collected, results, ncalls, prev>>

\* A thread whose future main() has taken: how it ended is all that is kept.
Joined(t) == [BlankTask EXCEPT !.pc = t.pc, !.entry = t.entry, !.ip = t.ip, !.exc = t.exc]

\* Collect with the exception of a future swallowed: no outcome is appended.
CollectDropsFault(s) ==
    /\ mainpc = "collect"
    /\ s \in 1..Len(targets)
    /\ \A k \in 1..Len(collected) : collected[k] # s
    /\ Ended(task[s])
    /\ results' = IF task[s].pc = "done" THEN Append(results, task[s].rv) ELSE results
    /\ collected' = Append(collected, s)
    /\ task' = [task EXCEPT ![s] = Joined(task[s])]
    /\ UNCHANGED <<file, mainpc, command, targets, summary, ncalls, prev>>

\* Collect giving every failed future one fixed message instead of str(exc).
CollectLosesMessage(s) ==
    /\ mainpc = "collect"
    /\ s \in 1..Len(targets)
    /\ \A k \in 1..Len(collected) : collected[k] # s
    /\ Ended(task[s])
    /\ results' = Append(results,
            IF task[s].pc = "done" THEN task[s].rv
            ELSE Dict(targets[s], get_tv_name(file, targets[s]), FALSE, <<"Task failed">>))
    /\ collected' = Append(collected, s)
    /\ task' = [task EXCEPT ![s] = Joined(task[s])]
    /\ UNCHANGED <<file, mainpc, command, targets, summary, ncalls, prev>>

\* main, lines 383-395: the result of one completed future, or the failure
\* outcome made of its exception.
Collect(s) ==
    /\ mainpc = "collect"
    /\ s \in 1..Len(targets)
    /\ \A k \in 1..Len(collected) : collected[k] # s
    /\ Ended(task[s])
    /\ results' = Append(results,
            IF task[s].pc = "done" THEN task[s].rv
            ELSE Dict(targets[s], get_tv_name(file, targets[s]), FALSE, task[s].exc))
    /\ collected' = Append(collected, s)
    /\ task' = [task EXCEPT ![s] = Joined(task[s])]
    /\ UNCHANGED <<file, mainpc, command, targets, summary, ncalls, prev>>

\* Summarize not waiting for the futures still running: the summary is made
\* of the results at hand.
SummarizeEarly ==
    /\ mainpc = "collect"
    /\ summary' = [printed |-> TRUE, error |-> None,
                   successful |-> Cardinality({k \in 1..Len(results) : results[k].success}),
                   failed |-> Cardinality({k \in 1..Len(results) : ~results[k].success}),
                   total |-> Len(results)]
    /\ mainpc' = "exited"
    /\ UNCHANGED <<file, task, command, targets, collected, results, ncalls, prev>>

\* main, lines 397-409: the summary.
Summarize ==
    /\ mainpc = "collect"
    /\ Len(collected) = Len(targets)
    /\ summary' = [printed |-> TRUE, error |-> None,
                   successful |-> Cardinality({k \in 1..Len(results) : results[k].success}),
                   failed |-> Cardinality({k \in 1..Len(results) : ~results[k].success}),
                   total |-> Len(results)]
    /\ mainpc' = "exited"
    /\ UNCHANGED <<file, task, command, targets, collected, results, ncalls, prev>>

\* ------------------------------------------- send_wol_packet, called alone
\* The hardware addresses given: groups of digits joined by a separator.
MacGroups == {<<"a", "F">>, <<"g", "0">>, <<"7">>}
MacSeparators == {<<":">>, <<"-">>, <<>>}

RECURSIVE JoinMac(_, _)
JoinMac(groups, sep) ==
    IF Len(groups) = 0 THEN <<>>
    ELSE IF Len(groups) = 1 THEN groups[1]
    ELSE groups[1] \o sep \o JoinMac(Tail(groups), sep)

WolMacs ==
    {NoneMac} \cup
    {JoinMac(g, sep) : g \in UNION {[1..n -> MacGroups] : n \in 0..MaxMacGroups},
                       sep \in MacSeparators}

\* send_wol_packet(mac_address, broadcast_ip), lines 115-125: the call ends
\* with its arguments and its datagram, if one was sent, on record.
WolSend(s) ==
    /\ task[s].pc = "wol_send"
    /\ \E sent \in BOOLEAN :
        LET t == task[s]
            r == send_wol_packet(t.mac, t.bcast, sent)
        IN Step(s, [(IF r.success
                     THEN Logged(t, <<"datagram", Datagram(t.mac, t.bcast)>>)
                     ELSE t) EXCEPT !.pc = "done", !.rv = r])
    /\ UNCHANGED file /\ Quiet

\* ---------------------------------------------------- specifications
Init ==
    /\ file \in Directories
    /\ task = [s \in Slots |-> BlankTask]
    /\ mainpc = "idle"
    /\ command = None
    /\ targets = <<>>
    /\ collected = <<>>
    /\ results = <<>>
    /\ summary = NoSummary
    /\ ncalls = 0
    /\ prev = NoPrev

\* The caller of the API: calls made one after the other.
Next ==
    \/ ApiCall
    \/ ApiReturn
    \/ \E s \in Slots : TaskNext(s)

Spec == Init /\ [][Next]_vars

\* One run of the command line: main() and the threads of its pool.
InitBulk ==
    /\ Init
    /\ file \in BulkDirectories

NextBulk ==
    \/ Main
    \/ \E s \in Slots : Collect(s)
    \/ Summarize
    \/ \E s \in Slots : TaskNext(s)

SpecBulk == InitBulk /\ [][NextBulk]_vars

\* One run of the command line whose threads go on running: every ping,
\* connect, receive and wait of the code has a timeout, so a step that can
\* be taken is taken.  The directory holds an address with no record and a
\* record with no token.
InitBulkLive ==
    /\ Init
    /\ file = [ip \in IPS |-> IF ip = "10.0.0.1" THEN NoRecord
                                 ELSE Rec(<<"Lobby">>, GoodMac, None, None)]

SpecBulkLive == InitBulkLive /\ [][NextBulk]_vars /\ WF_vars(NextBulk)

\* One call of send_wol_packet.
InitWol ==
    /\ file = EmptyDir
    /\ \E m \in WolMacs, b \in {DefaultBroadcast, OtherBroadcast} :
        task = [s \in Slots |->
                  IF s = 1
                  THEN [BlankTask EXCEPT !.pc = "wol_send", !.entry = "send_wol_packet",
                                         !.mac = m, !.bcast = b]
                  ELSE BlankTask]
    /\ mainpc = "api"
    /\ command = None
    /\ targets = <<>>
    /\ collected = <<>>
    /\ results = <<>>
    /\ summary = NoSummary
    /\ ncalls = 1
    /\ prev = NoPrev

NextWol == \E s \in Slots : WolSend(s)

SpecWol == InitWol /\ [][NextWol]_vars

\* ------------------------------------------------------------ claims
\* The messages of the Power Controller.
MsgAlreadyOn == <<"TV is already on.">>
MsgNoMac == <<"No MAC address configured.">>
MsgPoweredOn == <<"TV successfully powered on.">>
MsgTimedOut == <<"WOL sent, but verification timed out. TV may be booting slowly.">>
MsgAlreadyOff == <<"TV is already off (unresponsive to ping).">>

\* The task runs handle_power_on, called directly or by the service's executor.
RunsPowerOn(t) ==
    \/ t.entry = "handle_power_on"
    \/ t.entry = "execute_command_for_tv" /\ t.command = "power-on"

\* The first ping of the invocation gave `answer`.
FirstProbe(t, answer) == Len(t.log) >= 1 /\ t.log[1] = <<"probe", answer>>

\* C1: a powerOn whose first ping finds the device reachable has returned
\* success "already on" with that ping as its only step: no wake signal, no
\* poll wait, no further ping.
C1_AlreadyOnNoWake ==
    \A s \in Slots :
        LET t == task[s]
        IN RunsPowerOn(t) /\ FirstProbe(t, "on") =>
            /\ t.pc = "done"
            /\ t.rv.success
            /\ t.rv.message = MsgAlreadyOn
            /\ Count(t.log, {"wol", "sleep"}) = 0
            /\ Count(t.log, {"probe"}) = 1
            /\ Len(t.log) = 1

C1_Witness ==
    \E s \in Slots :
        /\ RunsPowerOn(task[s]) /\ FirstProbe(task[s], "on")
        /\ task[s].pc = "done" /\ task[s].rv.message = MsgAlreadyOn

\* C2: a powerOn of an unreachable device whose record has no mac (missing or
\* empty) returns the failure "No MAC address configured."; at no point of
\* the invocation is a channel open or opened or a wake signal sent.
C2_NoMacFails ==
    \A s \in Slots :
        LET t == task[s]
            rec == get_tv_info(file, t.ip)
        IN RunsPowerOn(t) /\ rec.present /\ FalsyMac(rec.mac) =>
            /\ Count(t.log, {"wol", "open_pairing", "open_command", "get_token"}) = 0
            /\ t.ws = {}
            /\ FirstProbe(t, "off") /\ t.pc # "hpo_info" =>
                /\ t.pc = "done"
                /\ ~t.rv.success
                /\ t.rv.message = MsgNoMac

C2_Witness ==
    \E s \in Slots :
        /\ RunsPowerOn(task[s]) /\ FirstProbe(task[s], "off")
        /\ get_tv_info(file, task[s].ip).present
        /\ get_tv_info(file, task[s].ip).mac = <<>>
        /\ task[s].pc = "done" /\ task[s].rv.message = MsgNoMac

\* C3: a powerOff whose ping finds the device unreachable has returned success
\* "already off" with that ping as its only step: no token is resolved and no
\* channel is opened.
C3_AlreadyOffNoChannel ==
    \A s \in Slots :
        LET t == task[s]
        IN t.entry = "handle_power_off" /\ FirstProbe(t, "off") =>
            /\ t.pc = "done"
            /\ t.rv.success
            /\ t.rv.message = MsgAlreadyOff
            /\ Count(t.log, {"get_token", "open_pairing", "open_command", "send"}) = 0
            /\ t.ws = {}
            /\ Len(t.log) = 1

C3_Witness ==
    \E s \in Slots :
        /\ task[s].entry = "handle_power_off" /\ FirstProbe(task[s], "off")
        /\ task[s].pc = "done" /\ task[s].rv.message = MsgAlreadyOff

\* The first frame of the command channel was ms.channel.unauthorized.
SawUnauthorized(t) ==
    \E k \in 1..Len(t.log) : t.log[k] = <<"recv_command", Unauthorized>>

\* No other task of the call handles the device of task s.
AloneOnDevice(s) == \A r \in Slots \ {s} : task[r].ip # task[s].ip

\* C4: once a sendKey whose first frame was ms.channel.unauthorized has
\* returned, its result is a failure and the Device Record holds no cached
\* token: a getToken for that device finds none and has to pair again.
C4_RejectedTokenCleared ==
    \A s \in Slots :
        LET t == task[s]
        IN t.pc = "done" /\ SawUnauthorized(t) /\ AloneOnDevice(s) =>
            /\ ~t.rv.success
            /\ cached_token(get_tv_info(file, t.ip), FALSE) = None

\* C5: main() holds one outcome per future it has taken, carrying the address
\* of that future's target and marked failed if the future raised; the summary
\* is made of exactly one outcome per submitted target and its two counts add
\* up to the number of targets.
C5_OneOutcomePerTarget ==
    /\ Len(results) = Len(collected)
    /\ \A j, k \in 1..Len(collected) : j # k => collected[j] # collected[k]
    /\ \A k \in 1..Len(results) :
        /\ collected[k] \in 1..Len(targets)
        /\ results[k].ip = targets[collected[k]]
        /\ task[collected[k]].pc = "raised" => ~results[k].success
    /\ summary.printed =>
        /\ Len(results) = Len(targets)
        /\ summary.total = Len(targets)
        /\ summary.successful + summary.failed = Len(targets)

C5_Witness ==
    /\ summary.printed
    /\ Len(targets) = MaxTargets
    /\ \E k \in 1..Len(results) : task[collected[k]].pc = "raised" /\ ~results[k].success
    /\ \E k \in 1..Len(results) : results[k].success

\* The steps of a sendKey that pairs first, for the token `tok` and key `key`.
PairingRun(tok, key) ==
    << <<"get_token", None>>, <<"open_pairing", None>>, <<"recv_pairing", tok>>,
       <<"persist", tok>>, <<"close_pairing", None>>, <<"open_command", tok>>,
       <<"recv_command", Connect>>, <<"send", key>>, <<"close_command", None>> >>

\* C6: a sendKey(device, KEY_VOLUP) that finds no cached token and succeeds
\* has done exactly this, in this order: opened a pairing channel with no
\* token, received a token, written it to the Device Record, closed the
\* pairing channel, opened the command channel with that token, received
\* ms.channel.connect, sent the click of KEY_VOLUP and closed the channel; it
\* returns "Sent KEY_VOLUP".  And a call that did all of this succeeds.
C6_PairThenSend ==
    \A s \in Slots :
        LET t == task[s]
        IN t.entry = "send_command" /\ t.key = "KEY_VOLUP" /\ t.pc = "done"
           /\ Len(t.log) >= 1 /\ t.log[1][1] = "get_token" /\ Falsy(t.log[1][2]) =>
            /\ t.rv.success =>
                /\ \E tok \in Tokens : t.log = PairingRun(tok, "KEY_VOLUP")
                /\ t.rv.message = <<"Sent ", "KEY_VOLUP">>
                /\ t.ws = {}
            /\ (\E tok \in Tokens : t.log = PairingRun(tok, "KEY_VOLUP")) => t.rv.success

C6_Witness ==
    \E s \in Slots :
        /\ task[s].entry = "send_command" /\ task[s].pc = "done"
        /\ task[s].log = PairingRun("t2", "KEY_VOLUP")
        /\ task[s].rv.message = <<"Sent ", "KEY_VOLUP">>

\* The pings of the verification loop: those that follow the wake signal.
Polls(t) ==
    {k \in 1..Len(t.log) :
        t.log[k][1] = "probe" /\ \E j \in 1..(k - 1) : t.log[j][1] = "wol"}

\* C7: a powerOn that emitted the wake signal returns success; if every one
\* of its PollAttempts polls found the device unreachable the message is the
\* timed-out one, which differs from "successfully powered on"; the latter is
\* returned exactly when some poll found the device reachable.
C7_OptimisticPowerOn ==
    \A s \in Slots :
        LET t == task[s]
        IN RunsPowerOn(t) /\ t.pc = "done" /\ Count(t.log, {"wol"}) > 0 =>
            /\ t.rv.success
            /\ MsgTimedOut # MsgPoweredOn
            /\ (\A k \in Polls(t) : t.log[k][2] = "off") =>
                /\ Cardinality(Polls(t)) = PollAttempts
                /\ t.rv.message = MsgTimedOut
            /\ t.rv.message = MsgPoweredOn <=> \E k \in Polls(t) : t.log[k][2] = "on"

C7_Witness ==
    \E s \in Slots :
        /\ RunsPowerOn(task[s]) /\ task[s].pc = "done"
        /\ Count(task[s].log, {"wol"}) = 1
        /\ Cardinality(Polls(task[s])) = PollAttempts
        /\ task[s].rv.success /\ task[s].rv.message = MsgTimedOut

\* C8: a powerOn that follows a powerOn of the same device which emitted the
\* wake signal, and that finds the device reachable, is the fast path: success
\* "already on", no wake signal, no poll wait, and fewer waits and pings than
\* the first call made.
C8_SecondPowerOnIsFast ==
    \A s \in Slots :
        LET t == task[s]
        IN t.entry = "handle_power_on" /\ prev.valid /\ prev.ip = t.ip /\ prev.wol
           /\ FirstProbe(t, "on") =>
            /\ t.pc = "done"
            /\ t.rv.success /\ t.rv.message = MsgAlreadyOn
            /\ Count(t.log, {"wol", "sleep"}) = 0
            /\ Count(t.log, {"probe", "sleep"}) < prev.steps

C8_Witness ==
    \E s \in Slots :
        /\ task[s].entry = "handle_power_on" /\ task[s].pc = "done"
        /\ prev.valid /\ prev.ip = task[s].ip /\ prev.wol
        /\ FirstProbe(task[s], "on") /\ task[s].rv.message = MsgAlreadyOn

\* C9: the service's executor gives "power-off" the outcome of powerOff
\* (success "already off" for an unreachable device), and sends for any other
\* registered command the key code the Command Registry resolves it to.
C9_ExecutorRoutesLikeMain ==
    \A s \in Slots :
        LET t == task[s]
        IN t.entry = "execute_command_for_tv" =>
            /\ t.command = "power-off" /\ FirstProbe(t, "off") =>
                /\ t.pc = "done"
                /\ t.rv.success
                /\ t.rv.message = MsgAlreadyOff
            /\ t.command \in DOMAIN tv_keys \ {"power-on", "power-off"} =>
                \A k \in 1..Len(t.log) :
                    t.log[k][1] = "send" => t.log[k][2] = resolve(t.command)

\* C10: a command name the Command Registry does not resolve (and that is not
\* power-on or power-off) is an error for the caller and opens no channel and
\* sends no key press, in main() and in the service's executor.
C10_UnknownCommandStopsEarly ==
    /\ \A s \in Slots :
        LET t == task[s]
        IN t.entry = "execute_command_for_tv"
           /\ t.command \notin {"power-on", "power-off"} /\ resolve(t.command) = None =>
            /\ Count(t.log, {"open_pairing", "open_command", "send"}) = 0
            /\ t.pc = "done" => ~t.rv.success
    /\ command # None /\ command \notin {"power-on", "power-off"} /\ resolve(command) = None =>
        /\ summary.error # None
        /\ \A s \in Slots : task[s].pc = "unused"

\* One step of a bulk call, seen from the faults of its tasks.
C11_Step ==
    /\ \A s \in Slots :
        \* the step in which the function of task s raises
        task[s].pc # "raised" /\ task'[s].pc = "raised" =>
            /\ task'[s].exc # <<>>
            /\ task[s].entry # "execute_command_for_tv"
            /\ \A r \in Slots \ {s} : task'[r] = task[r]
            /\ UNCHANGED <<file, results, collected, mainpc, summary>>
    /\ \A s \in Slots :
        \* the step in which main() takes the future of task s
        collected' = Append(collected, s) =>
            /\ results' = Append(results,
                    IF task[s].pc = "raised"
                    THEN Dict(targets[s], get_tv_name(file, targets[s]), FALSE, task[s].exc)
                    ELSE task[s].rv)
            /\ \A k \in 1..Len(results) : results'[k] = results[k]
            /\ \A r \in Slots \ {s} : task'[r] = task[r]
            /\ mainpc' = "collect"

\* C11: in a bulk call a fault of one device's task changes nothing but that
\* task (the other tasks, the directory, the outcomes so far and main() are
\* as they were); main() turns the fault into a failure outcome for that
\* device carrying the fault's message and goes on collecting; the outcome of
\* every other task is the value that task returned.  The service's executor
\* never lets a fault out.
C11_TaskIsolation == [][C11_Step]_vars

C11_Witness ==
    /\ summary.printed
    /\ Len(results) = 2
    /\ task[collected[1]].pc = "raised"
    /\ results[1] = Dict(targets[collected[1]], get_tv_name(file, targets[collected[1]]),
                         FALSE, <<"'NoneType' object has no attribute 'get'">>)
    /\ task[collected[2]].pc = "done" /\ results[2].success

\* The single-device operations of the core.
CoreOperations ==
    {"handle_power_on", "handle_power_off", "process_generic_command", "send_key",
     "send_command", "get_token", "send_wol_packet"}

\* C12: no single-device operation of the core raises to its caller, whatever
\* the address (with or without a Device Record) and whatever the device and
\* the network answer: every call ends by returning a value.
C12_FailuresAreValues ==
    \A s \in Slots :
        task[s].entry \in CoreOperations => task[s].pc # "raised"

\* The returns of the Command Dispatcher to the handler of the task.
Dispatches(t) ==
    {k \in 1..Len(t.log) : t.log[k][1] \in {"dispatch_ok", "dispatch_failed"}}

\* A powerOff that found the device reachable and has returned.
PowerOffSent(t) ==
    t.entry = "handle_power_off" /\ FirstProbe(t, "on") /\ t.pc = "done"

MsgPowerOffSent == <<"Power-off command sent successfully.">>
MsgPowerOffFailed == <<"Failed to send power-off command: ">>

\* C13 as stated: a powerOff of a reachable device calls the Command
\* Dispatcher once, for KEY_POWER, and its outcome has the success flag and the
\* message the Dispatcher returned; no ping and no wait follows the first ping.
C13_PowerOffVerbatim ==
    \A s \in Slots :
        LET t == task[s]
        IN PowerOffSent(t) =>
            /\ Cardinality(Dispatches(t)) = 1
            /\ Count(t.log, {"get_token"}) = 1
            /\ \A k \in 1..Len(t.log) : t.log[k][1] = "send" => t.log[k][2] = "KEY_POWER"
            /\ Count(t.log, {"probe"}) = 1 /\ Count(t.log, {"sleep", "wol"}) = 0
            /\ \A k \in Dispatches(t) :
                /\ t.rv.success = (t.log[k][1] = "dispatch_ok")
                /\ t.rv.message = t.log[k][2]

\* C13 amended: the success flag is the Dispatcher's; the message is
\* "Power-off command sent successfully." on success and "Failed to send
\* power-off command: " followed by the Dispatcher's message on failure.
C13_PowerOffWrapsMessage ==
    \A s \in Slots :
        LET t == task[s]
        IN PowerOffSent(t) =>
            /\ Cardinality(Dispatches(t)) = 1
            /\ Count(t.log, {"get_token"}) = 1
            /\ \A k \in 1..Len(t.log) : t.log[k][1] = "send" => t.log[k][2] = "KEY_POWER"
            /\ Count(t.log, {"probe"}) = 1 /\ Count(t.log, {"sleep", "wol"}) = 0
            /\ \A k \in Dispatches(t) :
                /\ t.rv.success = (t.log[k][1] = "dispatch_ok")
                /\ t.rv.success = (Count(t.log, {"send"}) = 1)
                /\ t.rv.message = IF t.log[k][1] = "dispatch_ok" THEN MsgPowerOffSent
                                  ELSE MsgPowerOffFailed \o t.log[k][2]

C13_Witness ==
    \E s \in Slots :
        /\ PowerOffSent(task[s])
        /\ ~task[s].rv.success
        /\ task[s].rv.message = MsgPowerOffFailed \o <<"rejected by TV">>

MsgOff == <<"TV is off.">>

\* C14: a generic command (process_generic_command, send_key) whose ping finds
\* the device unreachable has returned the failure "TV is off." with that ping
\* as its only step: no token resolution, no pairing, no channel.
C14_GenericFailsFast ==
    \A s \in Slots :
        LET t == task[s]
        IN t.entry \in {"process_generic_command", "send_key"} /\ FirstProbe(t, "off") =>
            /\ t.pc = "done"
            /\ ~t.rv.success
            /\ t.rv.message = MsgOff
            /\ t.rv.ip = t.ip
            /\ Count(t.log, {"get_token", "open_pairing", "open_command", "send"}) = 0
            /\ t.ws = {}
            /\ Len(t.log) = 1

C14_Witness ==
    \E s \in Slots :
        /\ task[s].entry = "send_key" /\ FirstProbe(task[s], "off")
        /\ task[s].pc = "done" /\ task[s].rv.message = MsgOff /\ ~task[s].rv.success

\* The hex digits of a hardware address, its separators dropped.
MacDigits(mac) == SelectSeq(mac, LAMBDA c : c \notin {":", "-"})

\* The address decodes to exactly 6 bytes: 12 hex digits.
WellFormedMac(mac) ==
    /\ Len(MacDigits(mac)) = 12
    /\ \A k \in 1..12 : IsHex(MacDigits(mac)[k])

\* The datagrams a call of send_wol_packet sent.
Datagrams(t) == {k \in 1..Len(t.log) : t.log[k][1] = "datagram"}

\* The one datagram is the magic packet: to port 9 of the broadcast address,
\* 102 bytes, 6 of 0xFF and then 16 times the 6 bytes of the address.
IsMagicDatagram(d, mac, bcast) ==
    /\ d.addr = bcast
    /\ d.port = 9
    /\ Len(d.payload) = 102
    /\ \A k \in 1..6 : d.payload[k] = 255
    /\ \A r \in 0..15 : \A j \in 1..6 :
        d.payload[6 + 6 * r + j] =
            16 * HexVal(MacDigits(mac)[2 * j - 1]) + HexVal(MacDigits(mac)[2 * j])

\* C15 as stated: for a well-formed address the call sends the one magic
\* datagram and succeeds; for any other address it fails and sends nothing.
C15_WakeAlwaysSends ==
    \A s \in Slots :
        LET t == task[s]
        IN t.entry = "send_wol_packet" /\ t.pc = "done" =>
            IF WellFormedMac(t.mac)
            THEN /\ t.rv.success
                 /\ Cardinality(Datagrams(t)) = 1
                 /\ \A k \in Datagrams(t) : IsMagicDatagram(t.log[k][2], t.mac, t.bcast)
            ELSE ~t.rv.success /\ Datagrams(t) = {}

\* C15 amended: for a well-formed address the call sends at most one
\* datagram, the magic one, and succeeds exactly when it was sent (it fails,
\* with nothing sent, when the socket raises); for any other address it fails
\* and sends nothing.
C15_WakeDatagram ==
    \A s \in Slots :
        LET t == task[s]
        IN t.entry = "send_wol_packet" /\ t.pc = "done" =>
            IF WellFormedMac(t.mac)
            THEN /\ Cardinality(Datagrams(t)) <= 1
                 /\ t.rv.success = (Cardinality(Datagrams(t)) = 1)
                 /\ \A k \in Datagrams(t) : IsMagicDatagram(t.log[k][2], t.mac, t.bcast)
            ELSE ~t.rv.success /\ Datagrams(t) = {}

C15_Witness ==
    \E s \in Slots :
        /\ task[s].entry = "send_wol_packet" /\ task[s].pc = "done"
        /\ task[s].mac = JoinMac([k \in 1..6 |-> <<"a", "F">>], <<"-">>)
        /\ task[s].rv.success
        /\ Cardinality(Datagrams(task[s])) = 1

\* The task is a call of get_token(ip, force_pairing=False) that has read a
\* Device Record carrying the token tok.
ReadCachedToken(t, tok) ==
    /\ t.entry = "get_token" /\ ~t.force
    /\ Len(t.log) >= 1 /\ t.log[1] = <<"get_token", tok>>

\* C16: getToken(device, forcePairing=false) on a record that carries a token
\* has returned that token with the read of the record as its only step: no
\* pairing channel, no receive, no write of the directory, which still holds
\* the token.
C16_CachedTokenNoIO ==
    \A s \in Slots : \A tok \in Tokens :
        LET t == task[s]
        IN ReadCachedToken(t, tok) =>
            /\ t.pc = "done"
            /\ t.rv.token = tok
            /\ Len(t.log) = 1
            /\ Count(t.log, {"open_pairing", "recv_pairing", "persist", "open_command"}) = 0
            /\ t.ws = {}
            /\ get_tv_info(file, t.ip).token = tok

C16_Witness ==
    \E s \in Slots :
        /\ ReadCachedToken(task[s], "t1")
        /\ task[s].pc = "done" /\ task[s].rv.token = "t1"

MsgNoToken == <<"Authentication token not available">>

\* The token resolution of the task gave a token: the record carried one (and
\* pairing was not forced), or a pairing frame did.
Resolved(t) ==
    \/ ~t.force /\ \E k \in 1..Len(t.log) :
            t.log[k][1] = "get_token" /\ ~Falsy(t.log[k][2])
    \/ \E k \in 1..Len(t.log) : t.log[k][1] = "recv_pairing" /\ t.log[k][2] \in Tokens

\* C17: a getToken that resolves no token (no record, no cached token and a
\* pairing that fails to connect, fails to receive or receives a frame with
\* no token) returns none and has not written the directory, whose token is
\* the one it read; a sendKey in that case fails with "Authentication token
\* not available" and never opens the command channel nor sends a key press.
C17_NoTokenNoSend ==
    \A s \in Slots :
        LET t == task[s]
        IN /\ t.entry = "get_token" /\ t.pc = "done" =>
                /\ Falsy(t.rv.token) = ~Resolved(t)
                /\ Falsy(t.rv.token) =>
                    /\ Count(t.log, {"persist"}) = 0
                    /\ t.ws = {}
                    /\ get_tv_info(file, t.ip).token = t.log[1][2]
           /\ t.entry \in {"send_command", "send_key", "process_generic_command"}
              /\ ~Resolved(t) =>
                /\ Count(t.log, {"open_command", "send", "persist"}) = 0
                /\ "command" \notin t.ws
                /\ t.pc = "done" /\ Count(t.log, {"get_token"}) = 1 =>
                    /\ ~t.rv.success
                    /\ t.rv.message = MsgNoToken

C17_Witness ==
    \E s \in Slots :
        /\ task[s].entry = "send_command" /\ task[s].pc = "done"
        /\ task[s].log = << <<"get_token", None>>, <<"open_pairing", None>>,
                            <<"recv_pairing", None>>, <<"close_pairing", None>> >>
        /\ task[s].rv.message = MsgNoToken

\* The place of the first wake signal in the log of the task, 0 if none.
WolAt(t) ==
    IF Count(t.log, {"wol"}) = 0 THEN 0
    ELSE CHOOSE k \in 1..Len(t.log) :
            t.log[k][1] = "wol" /\ \A j \in 1..(k - 1) : t.log[j][1] # "wol"

\* C18: in a powerOn, at most one wake signal is emitted; what follows it is
\* waits of 3 seconds and pings in turn, a wait first, at most 10 pings; one that
\* finds the device reachable is the last step and the call has returned
\* success "successfully powered on"; while every ping so far failed and
\* fewer than 10 were made the call goes on polling.
C18_VerificationLoop ==
    \A s \in Slots :
        LET t == task[s]
            w == WolAt(t)
            n == Len(t.log)
        IN RunsPowerOn(t) /\ w > 0 =>
            /\ Count(t.log, {"wol"}) = 1
            /\ Cardinality(Polls(t)) <= 10
            /\ \A k \in (w + 1)..n :
                t.log[k][1] = IF (k - w) % 2 = 1 THEN "sleep" ELSE "probe"
            /\ (n - w) % 2 = 0
            /\ \A k \in 1..n : t.log[k][1] = "sleep" => t.log[k][2] = 3
            /\ \A k \in Polls(t) : t.log[k][2] = "on" =>
                /\ k = n
                /\ t.pc = "done" /\ t.rv.success /\ t.rv.message = MsgPoweredOn
            /\ (\A k \in Polls(t) : t.log[k][2] = "off") =>
                (t.pc = "hpo_poll") = (Cardinality(Polls(t)) < 10)

C18_Witness ==
    \E s \in Slots :
        /\ RunsPowerOn(task[s]) /\ task[s].pc = "done"
        /\ Cardinality(Polls(task[s])) = 3
        /\ Count(task[s].log, {"sleep"}) = 3
        /\ task[s].rv.message = MsgPoweredOn

\* The places of the events of the kinds `kinds` in the log of the task.
Places(t, kinds) == {k \in 1..Len(t.log) : t.log[k][1] \in kinds}

\* Every event of the kinds `later` comes after one of the kinds `earlier`.
Precedes(t, earlier, later) ==
    \A k \in Places(t, later) : \E j \in Places(t, earlier) : j < k

\* C19: in every task of a bulk call that runs a generic command or a
\* power-off, whatever the other tasks do meanwhile: the first step is the
\* ping, and nothing follows it unless it found the device reachable; the
\* token is resolved after the ping and before the command channel is opened;
\* the key press is sent after the channel is opened and has answered
\* ms.channel.connect.
C19_PerDeviceOrder ==
    \A s \in Slots :
        LET t == task[s]
        IN t.entry \in {"process_generic_command", "handle_power_off"} /\ Len(t.log) >= 1 =>
            /\ t.log[1][1] = "probe"
            /\ Len(t.log) > 1 => t.log[1][2] = "on"
            /\ Count(t.log, {"probe"}) = 1
            /\ Precedes(t, {"probe"}, {"get_token"})
            /\ Precedes(t, {"get_token"}, {"open_pairing", "open_command"})
            /\ Precedes(t, {"open_command"}, {"recv_command"})
            /\ Precedes(t, {"recv_command"}, {"send"})
            /\ \A k \in Places(t, {"send"}) : t.log[k - 1] = <<"recv_command", Connect>>
            /\ \A k \in Places(t, {"open_command"}) :
                \/ t.log[k - 1][1] = "get_token" /\ t.log[k - 1][2] = t.log[k][2]
                \/ t.log[k - 1][1] = "close_pairing"

\* Two tasks of one bulk call, both past their ping, one of them having sent
\* its key press while the other is still at work.
C19_Witness ==
    /\ mainpc = "collect"
    /\ \E s, r \in Slots :
        /\ s # r
        /\ task[s].entry = "process_generic_command" /\ task[s].pc = "done"
        /\ Count(task[s].log, {"send"}) = 1
        /\ Count(task[s].log, {"open_pairing"}) = 1
        /\ task[r].pc = "sc_recv"

\* Every task of the bulk call has ended, none is collected yet, and no two
\* of them handle the same device.
AllTasksEnded ==
    /\ mainpc = "collect" /\ collected = <<>>
    /\ \A s \in 1..Len(targets) : Ended(task[s])
    /\ \A j, k \in 1..Len(targets) : j # k => targets[j] # targets[k]

\* The token the task wrote last to the record of its device.
LastWritten(t) ==
    t.log[CHOOSE k \in Places(t, {"persist"}) : \A j \in Places(t, {"persist"}) : j <= k][2]

\* C20: when all the tasks of a bulk call over distinct devices have ended,
\* the record of every device whose task wrote a token (set by pairing, or
\* cleared after a rejection) holds the token that task wrote last.
C20_NoLostTokenUpdate ==
    AllTasksEnded =>
        \A s \in 1..Len(targets) :
            Places(task[s], {"persist"}) # {} =>
                get_tv_info(file, task[s].ip).token = LastWritten(task[s])

\* The connections the task has opened and not closed in the first n steps of
\* its log.
OpenAfter(t, n) ==
    Cardinality({k \in 1..n : t.log[k][1] \in {"open_pairing", "open_command"}})
    - Cardinality({k \in 1..n : t.log[k][1] \in {"close_pairing", "close_command"}})

\* C21: a task never holds two connections (each is opened when every earlier
\* one is closed, the pairing channel before the command channel is opened),
\* the connections it holds are those opened and not yet closed, and once its
\* getToken or sendKey has returned, with a value or not, none is open.
C21_ChannelsClosed ==
    \A s \in Slots :
        LET t == task[s]
            n == Len(t.log)
        IN /\ \A k \in 1..n : OpenAfter(t, k) \in {0, 1}
           /\ \A k \in Places(t, {"open_pairing", "open_command"}) : OpenAfter(t, k - 1) = 0
           /\ \A k \in Places(t, {"close_pairing"}) :
                \E j \in 1..(k - 1) : t.log[j][1] = "open_pairing"
           /\ \A k \in Places(t, {"close_command"}) :
                \E j \in 1..(k - 1) : t.log[j][1] = "open_command"
           /\ t.pc \notin {"unused", "done", "raised"} => Cardinality(t.ws) = OpenAfter(t, n)
           /\ t.pc \in {"done", "raised", "sc_connect"} => OpenAfter(t, n) = 0

\* A sendKey that paired, was then refused on the command channel, and has
\* returned with both connections closed.
C21_Witness ==
    \E s \in Slots :
        /\ task[s].entry = "send_command" /\ task[s].pc = "done"
        /\ Count(task[s].log, {"open_pairing"}) = 1
        /\ Count(task[s].log, {"close_pairing"}) = 1
        /\ \E k \in 1..Len(task[s].log) : task[s].log[k] = <<"recv_command", TimeOut>>
        /\ Count(task[s].log, {"close_command"}) = 1

\* response.get("message", "Connection issue") of the frames of event ev.
ServerMessages(ev) ==
    {IF r.message = None THEN <<"Connection issue">> ELSE <<r.message>> :
        r \in {f \in Frames : f.event = ev}}

\* C22: in a sendKey, a key press is sent only right after the first frame of
\* the command channel was ms.channel.connect, and it is the click of the key
\* asked for; after a first frame of any other event no key press is sent and
\* the call has failed with the message of that frame; the call succeeds
\* exactly when the key press was sent.
C22_SendOnlyAfterConnect ==
    \A s \in Slots :
        LET t == task[s]
        IN t.entry = "send_command" =>
            /\ \A k \in Places(t, {"send"}) :
                /\ k > 1 /\ t.log[k - 1] = <<"recv_command", Connect>>
                /\ t.log[k][2] = t.key
            /\ Count(t.log, {"send"}) <= 1
            /\ \A k \in Places(t, {"recv_command"}) :
                t.log[k][2] \in {Unauthorized, TimeOut} =>
                    /\ Count(t.log, {"send"}) = 0
                    /\ t.pc \in {"uti_load", "uti_save", "done"}
                    /\ t.pc = "done" =>
                        ~t.rv.success /\ t.rv.message \in ServerMessages(t.log[k][2])
            /\ t.pc = "done" => (t.rv.success = (Count(t.log, {"send"}) = 1))

C22_Witness ==
    \E s \in Slots :
        /\ task[s].entry = "send_command" /\ task[s].pc = "done"
        /\ \E k \in 1..Len(task[s].log) : task[s].log[k] = <<"recv_command", TimeOut>>
        /\ task[s].rv.message = <<"try again">>
        /\ Count(task[s].log, {"send"}) = 0

\* C23: once a sendKey has ended in an authentication error (the token was
\* rejected, or the pairing gave no token) the Device Record holds no cached
\* token; the sendKey that follows for that device finds none and starts a
\* pairing, and if the device gives a token, accepts it on the command channel
\* and takes the key press, that call succeeds.
C23_SelfHealing ==
    /\ \A s \in Slots :
        AuthError(task[s], file) /\ AloneOnDevice(s) =>
            cached_token(get_tv_info(file, task[s].ip), FALSE) = None
    /\ \A s \in Slots :
        LET t == task[s]
        IN t.entry = "send_command" /\ prev.auth /\ prev.ip = t.ip =>
            /\ \A k \in Places(t, {"get_token"}) : Falsy(t.log[k][2])
            /\ Count(t.log, {"get_token"}) = 1 =>
                \/ t.pc = "gt_connect"
                \/ Count(t.log, {"open_pairing"}) = 1
                \/ /\ t.pc = "done" /\ t.rv.message = MsgNoToken
                   /\ t.log[Len(t.log)] = <<"connect_failed", "pairing">>
            /\ t.pc = "done" /\ (\E tok \in Tokens : t.log = PairingRun(tok, t.key)) =>
                t.rv.success

\* The second of two sendKey calls, after a first one whose token was
\* rejected: it paired anew and succeeded.
C23_Healed ==
    \E s \in Slots :
        /\ task[s].entry = "send_command" /\ prev.auth /\ prev.ip = task[s].ip
        /\ task[s].pc = "done" /\ task[s].rv.success
        /\ task[s].log = PairingRun("t2", task[s].key)

\* The summary is printed and every task of the call has ended and has its
\* outcome in results.
AllIn ==
    /\ mainpc = "exited"
    /\ Len(results) = Len(targets)
    /\ \A s \in 1..Len(targets) :
        /\ Ended(task[s])
        /\ \E k \in 1..Len(collected) : collected[k] = s
    /\ \A s \in Slots \ (1..Len(targets)) : task[s].pc = "unused"
    /\ summary.successful = Cardinality({k \in 1..Len(results) : results[k].success})
    /\ summary.failed = Cardinality({k \in 1..Len(results) : ~results[k].success})

\* C24: when main() has computed the counts of its summary, every task it
\* submitted has ended and its outcome is one of those counted; from then on
\* no task takes a step and no outcome is added.
C24_SummaryAfterAll ==
    /\ [](summary.printed => AllIn)
    /\ [][summary.printed => UNCHANGED <<task, results, collected, summary, file>>]_vars

C24_Witness ==
    /\ summary.printed
    /\ Len(targets) = 2
    /\ summary.successful = 1 /\ summary.failed = 1
    /\ \A s \in 1..2 : task[s].pc = "done"

\* main() has returned: with its summary, or with the error of its arguments.
MainReturned ==
    /\ mainpc = "exited"
    /\ summary.printed \/ summary.error # None
    /\ summary.printed =>
        /\ Len(results) = Len(targets)
        /\ \A s \in 1..Len(targets) : Ended(task[s])

\* C25: every task takes a bounded number of steps (at most the ping, the
\* wake signal and the 10 rounds of wait and ping of a powerOn), whatever the
\* device and the network answer, and every run of main() ends: all its
\* tasks have ended, their outcomes are in results and the summary is out.
C25_Termination ==
    /\ [](\A s \in Slots : Len(task[s].log) <= 2 + 2 * 10)
    /\ <>[]MainReturned

C25_Witness ==
    /\ MainReturned /\ summary.printed
    /\ command = "power-on"
    /\ Len(targets) = 2
    /\ \E k \in 1..2 : results[k].message = MsgTimedOut

\* The step k of the log is a failure of the connection or of the
\* authentication: a connect or a send that failed, a receive that gave an
\* exception, a pairing frame without a token, a first frame that is not
\* ms.channel.connect.
FailureAt(t, k) ==
    \/ t.log[k][1] \in {"connect_failed", "send_failed"}
    \/ t.log[k][1] = "recv_pairing" /\ t.log[k][2] \notin Tokens
    \/ t.log[k][1] = "recv_command" /\ t.log[k][2] # Connect

\* C26: in one sendKey, generic command or powerOff there is at most one
\* ping, one token resolution, one attempt to open a pairing channel, one
\* attempt to open a command channel and one attempt to send a key press;
\* after a failed connect, receive or send or a rejected token nothing is
\* attempted again (what follows is the clearing of a rejected token and the
\* closing of the channel) and the call ends with a failure.
C26_NoInternalRetry ==
    \A s \in Slots :
        LET t == task[s]
            pairing == {k \in 1..Len(t.log) :
                \/ t.log[k][1] = "open_pairing"
                \/ t.log[k] = <<"connect_failed", "pairing">>}
            commandch == {k \in 1..Len(t.log) :
                \/ t.log[k][1] = "open_command"
                \/ t.log[k] = <<"connect_failed", "command">>}
        IN t.entry \in {"send_command", "send_key", "process_generic_command",
                        "handle_power_off"} =>
            /\ Cardinality(pairing) <= 1
            /\ Cardinality(commandch) <= 1
            /\ Count(t.log, {"send", "send_failed"}) <= 1
            /\ Count(t.log, {"get_token"}) <= 1
            /\ Count(t.log, {"probe"}) <= 1
            /\ Count(t.log, {"sleep", "wol"}) = 0
            /\ \A k \in 1..Len(t.log) : FailureAt(t, k) =>
                /\ \A j \in (k + 1)..Len(t.log) :
                    \/ t.log[j][1] \in {"close_pairing", "close_command", "dispatch_failed"}
                    \/ t.log[j] = <<"persist", None>>
                /\ t.pc \in {"uti_load", "uti_save", "done"}
                /\ t.pc = "done" => ~t.rv.success

C26_Witness ==
    \E s \in Slots :
        /\ task[s].entry = "handle_power_off" /\ task[s].pc = "done"
        /\ \E k \in 1..Len(task[s].log) : task[s].log[k] = <<"connect_failed", "command">>
        /\ Count(task[s].log, {"open_pairing"}) = 1
        /\ ~task[s].rv.success

\* Task s is writing the directory for a pairing of its device that gave the
\* token tok.
SavesPairing(s, tok) ==
    /\ task[s].pc = "uti_save" /\ Head(task[s].stk) = "get_token:persisted"
    /\ tok \in Tokens /\ task[s].upd = tok
    /\ task[s].log[Len(task[s].log)] = <<"recv_pairing", tok>>

\* Task s is writing the directory after ms.channel.unauthorized was the
\* first frame of its command channel.
SavesRejection(s) ==
    /\ task[s].pc = "uti_save" /\ Head(task[s].stk) = "send_command:cleared"
    /\ task[s].log[Len(task[s].log)] = <<"recv_command", Unauthorized>>

\* One step, seen from the stored tokens: a token that changes is the token of
\* the device of the task that takes the step, and it becomes the token that
\* task's pairing was given or, after a rejection, none.
C27_Step ==
    \A ip \in IPS :
        file'[ip].token # file[ip].token =>
            \E s \in Slots :
                /\ task'[s] # task[s]
                /\ task[s].ip = ip
                /\ \/ SavesPairing(s, file'[ip].token)
                   \/ SavesRejection(s) /\ file'[ip].token = None

\* C27: the stored token of a device changes only by a successful pairing of
\* a getToken for that device (to the token issued) or by an
\* ms.channel.unauthorized first frame of a sendKey for that device (to none);
\* every other step of every task leaves every stored token as it is.
C27_TokenFrame == [][C27_Step]_vars

====
